---------------------------- MODULE Spec2Model ----------------------------
(***************************************************************************)
(* A model of econtools/util/to_latex.py: the LaTeX table-row formatting   *)
(* functions (outreg, table_mainrow, table_statrow and their helpers) and  *)
(* write_notes.                                                            *)
(*                                                                         *)
(* Representation.  A Python str is a sequence of one-character strings,   *)
(* so that len, ljust, concatenation and str.format are computed and not   *)
(* assumed.  A Python value is a tagged record: PyStr, PyInt, PyFloat,     *)
(* PyBool, PyNone.  A float is a number of quarters (q stands for q/4), so *)
(* that every modelled float is exact in binary and fixed-point formatting *)
(* is the exact round-half-even of the format mini-language.  A p-value is *)
(* a number of thousandths.  A call either returns (Ok) or raises (Raise). *)
(***************************************************************************)
EXTENDS Integers, Sequences, FiniteSets, TLC

VARIABLES pc, call, ret, files

vars == <<pc, call, ret, files>>

-----------------------------------------------------------------------------
(* Bounds of the model *)

MaxVals == 2       \* longest value sequence handed to a row builder
MaxSlots == 2      \* longest empty_slots list
MaxPos == 3        \* largest index position named in empty_slots
MaxEmpty == 1      \* largest empty_left / empty_right count
MaxDigits == 2     \* largest digits argument
MaxRegs == 2       \* longest list of regression entries
MaxVars == 2       \* longest var_names list
MaxSegs == 3       \* longest table path, in path segments
MaxP == 120        \* largest p-value, in thousandths

-----------------------------------------------------------------------------
(* Python values *)

PyStr(s) == [t |-> "str", s |-> s]
PyInt(n) == [t |-> "int", n |-> n]
PyFloat(q) == [t |-> "float", q |-> q]
PyBool(b) == [t |-> "bool", b |-> b]
PyNone == [t |-> "None"]

Ok(v) == [t |-> "ok", v |-> v]
Raise(e) == [t |-> "raise", e |-> e]

EmptyStr == << >>

\* type(val) is str and len(val) == 0
IsEmptyStr(val) == val.t = "str" /\ Len(val.s) = 0

-----------------------------------------------------------------------------
(* str helpers *)

Spaces(n) == [i \in 1..n |-> " "]

\* str.ljust(width): pad on the right with spaces up to width
ljust(s, width) == IF Len(s) >= width THEN s ELSE s \o Spaces(width - Len(s))

Max(a, b) == IF a >= b THEN a ELSE b

RECURSIVE MaxOf(_)
\* max() of a non-empty list of integers
MaxOf(ns) == IF Len(ns) = 1 THEN ns[1] ELSE Max(ns[1], MaxOf(Tail(ns)))

RECURSIVE Concat(_)
\* the concatenation of a list of strs
Concat(ss) == IF ss = << >> THEN << >> ELSE ss[1] \o Concat(Tail(ss))

DigitChar(d) == <<"0", "1", "2", "3", "4", "5", "6", "7", "8", "9">>[d + 1]

RECURSIVE IntStr(_)
\* decimal digits of n >= 0
IntStr(n) == IF n < 10 THEN <<DigitChar(n)>>
             ELSE IntStr(n \div 10) \o <<DigitChar(n % 10)>>

RECURSIVE Pow10(_)
Pow10(d) == IF d = 0 THEN 1 ELSE 10 * Pow10(d - 1)

Abs(n) == IF n < 0 THEN 0 - n ELSE n

\* '{:.<digits>f}'.format(num / den): fixed point, round half to even, the
\* sign of a negative number kept even when it rounds to zero
FixedPoint(num, den, digits) ==
    LET m == Abs(num) * Pow10(digits)
        k0 == m \div den
        r == m % den
        k == IF 2 * r < den THEN k0
             ELSE IF 2 * r > den THEN k0 + 1
             ELSE IF k0 % 2 = 0 THEN k0 ELSE k0 + 1
        ip == IntStr(k \div Pow10(digits))
        fp == IntStr(k % Pow10(digits))
        pad == [i \in 1..(digits - Len(fp)) |-> "0"]
    IN  (IF num < 0 THEN <<"-">> ELSE << >>) \o ip \o
        (IF digits = 0 THEN << >> ELSE <<".">> \o pad \o fp)

\* repr of a float that is a number of quarters
FloatRepr(q) ==
    LET r == Abs(q) % 4
        frac == IF r = 0 THEN <<"0">>
                ELSE IF r = 1 THEN <<"2", "5">>
                ELSE IF r = 2 THEN <<"5">>
                ELSE <<"7", "5">>
    IN  (IF q < 0 THEN <<"-">> ELSE << >>) \o IntStr(Abs(q) \div 4) \o <<".">> \o frac

\* '{}'.format(x): what str.format puts in an unqualified placeholder
PyFormatDefault(x) ==
    IF x.t = "str" THEN x.s
    ELSE IF x.t = "int" THEN (IF x.n < 0 THEN <<"-">> ELSE << >>) \o IntStr(Abs(x.n))
    ELSE FloatRepr(x.q)

\* '{:.<digits>f}'.format(x) for a number x
PyFormatFixed(x, digits) ==
    IF x.t = "int" THEN FixedPoint(x.n, 1, digits) ELSE FixedPoint(x.q, 4, digits)

-----------------------------------------------------------------------------
(* Cell templates.  A template is a sequence of tokens of the format       *)
(* mini-language: "{}" is the placeholder, "{{" and "}}" are the escaped   *)
(* braces, any other token is a literal character.                         *)

PlainCell == <<"{}">>
NumCell == <<"\\", "n", "u", "m", "{{", "{}", "}}">>

RECURSIVE Format(_, _)
\* cell.format(s) for a template cell and the str s that fills the placeholder
Format(cell, s) ==
    IF cell = << >> THEN << >>
    ELSE (IF cell[1] = "{}" THEN s
          ELSE IF cell[1] = "{{" THEN <<"{">>
          ELSE IF cell[1] = "}}" THEN <<"}">>
          ELSE <<cell[1]>>) \o Format(Tail(cell), s)

eol == <<" ", "\\", "\\", " ", "\n">>

Sep == <<"&", " ">>

\* the p-value cut-offs and the keys of sig_labels, in thousandths
P_1 == 1000
P_10 == 100
P_05 == 50
P_01 == 10

sig_labels(p_level) ==
    IF p_level = P_1 THEN << >>
    ELSE IF p_level = P_10 THEN <<"*">>
    ELSE IF p_level = P_05 THEN <<"*", "*">>
    ELSE <<"*", "*", "*">>

\* _sig_level with the upper end of each band left out
sig_level_strict(p) ==
    LET p_level == IF p > P_10 THEN P_1
                   ELSE IF P_05 < p /\ p < P_10 THEN P_10
                   ELSE IF P_01 < p /\ p < P_05 THEN P_05
                   ELSE P_01
    IN  sig_labels(p_level)

\* _sig_level(p), p in thousandths
sig_level(p) ==
    LET p_level == IF p > P_10 THEN P_1
                   ELSE IF P_05 < p /\ p <= P_10 THEN P_10
                   ELSE IF P_01 < p /\ p <= P_05 THEN P_05
                   ELSE P_01
    IN  sig_labels(p_level)

\* _format_nums(x, digits)
format_nums(x, digits) ==
    IF x.t = "str" THEN x.s ELSE PyFormatFixed(x, digits)

\* _add_sd_parens taking every falsy flag for False
add_sd_parens_falsy(sd, cell) ==
    IF sd \in {PyBool(TRUE), PyStr(<<"(">>)} THEN Ok(<<"(">> \o cell \o <<")">>)
    ELSE IF sd = PyStr(<<"[">>) THEN Ok(<<"[">> \o cell \o <<"]">>)
    ELSE IF sd \in {PyBool(FALSE), PyInt(0), PyNone, PyStr(EmptyStr)} THEN Ok(cell)
    ELSE Raise("ValueError")

\* _add_sd_parens closing every pair with a round parenthesis
add_sd_parens_round(sd, cell) ==
    IF sd \in {PyBool(TRUE), PyStr(<<"(">>)} THEN Ok(<<"(">> \o cell \o <<")">>)
    ELSE IF sd = PyStr(<<"[">>) THEN Ok(<<"[">> \o cell \o <<")">>)
    ELSE IF sd = PyBool(FALSE) THEN Ok(cell)
    ELSE Raise("ValueError")

\* _add_sd_parens(sd, cell)
add_sd_parens(sd, cell) ==
    LET sd1 == IF sd = PyBool(TRUE) THEN PyStr(<<"(">>) ELSE sd
    IN  IF sd1.t = "str"
        THEN IF sd1.s = <<"(">> \/ sd1.s = <<"[">>
             THEN LET leftp == sd1.s
                      rightp == IF leftp = <<"(">> THEN <<")">> ELSE <<"]">>
                  IN  Ok(leftp \o cell \o rightp)
             ELSE Raise("ValueError")
        ELSE IF sd1 = PyBool(FALSE) THEN Ok(cell)
        ELSE Raise("ValueError")


InSeq(x, seq) == \E i \in 1..Len(seq) : seq[i] = x

RECURSIVE Fill_onebased(_, _, _, _, _, _)
\* the loop reading empty_slots as one-based positions
Fill_onebased(vals, empty_slots, i, total, nonempty_col, new_vals) ==
    IF i = total THEN Ok(new_vals)
    ELSE IF InSeq(i + 1, empty_slots)
         THEN Fill_onebased(vals, empty_slots, i + 1, total, nonempty_col,
                            Append(new_vals, PyStr(EmptyStr)))
         ELSE IF nonempty_col >= Len(vals) THEN Raise("IndexError")
              ELSE Fill_onebased(vals, empty_slots, i + 1, total, nonempty_col + 1,
                                 Append(new_vals, vals[nonempty_col + 1]))

RECURSIVE Fill(_, _, _, _, _, _)
\* the loop of _add_filler_empty_cells: slot i of total, nonempty_col values
\* of vals consumed so far, new_vals built so far
Fill(vals, empty_slots, i, total, nonempty_col, new_vals) ==
    IF i = total THEN Ok(new_vals)
    ELSE IF InSeq(i, empty_slots)
         THEN Fill(vals, empty_slots, i + 1, total, nonempty_col,
                   Append(new_vals, PyStr(EmptyStr)))
         ELSE IF nonempty_col >= Len(vals) THEN Raise("IndexError")
              ELSE Fill(vals, empty_slots, i + 1, total, nonempty_col + 1,
                        Append(new_vals, vals[nonempty_col + 1]))

\* _add_filler_empty_cells(vals, empty_left, empty_right, empty_slots);
\* index positions are zero-based as in the source
add_filler_empty_cells(vals, empty_left, empty_right, empty_slots) ==
    IF ~(empty_left # 0 \/ empty_right # 0 \/ empty_slots # << >>)
    THEN Ok(vals)
    ELSE IF (empty_left # 0 \/ empty_right # 0) /\ empty_slots # << >>
    THEN Raise("ValueError")
    ELSE LET len_vals == Len(vals)
             slots == IF empty_slots = << >>
                      THEN [i \in 1..empty_left |-> i - 1] \o
                           [i \in 1..empty_right |-> empty_left + len_vals + i - 1]
                      ELSE empty_slots
         IN  Fill(vals, slots, 0, Len(vals) + Len(slots), 0, << >>)

\* the loop body without the test for the empty string
statrow_cell_nocheck(val, cell, stat_just, digits) ==
    LET val_to_digits == IF digits = PyNone THEN PyFormatDefault(val)
                         ELSE format_nums(val, digits.n)
    IN  ljust(Format(cell, val_to_digits), stat_just)

\* one value cell of table_statrow: the body of its loop over vals
statrow_cell(val, cell, stat_just, digits) ==
    IF IsEmptyStr(val)
    THEN ljust(Sep, stat_just)
    ELSE LET val_to_digits == IF digits = PyNone THEN PyFormatDefault(val)
                              ELSE format_nums(val, digits.n)
         IN  ljust(Format(cell, val_to_digits), stat_just)

\* table_statrow looping over vals as given, the empty cells not added
table_statrow_noexpand(rowname, vals, name_just, stat_just, wrapnum, sd, digits, empty_left, empty_right, empty_slots) ==
    LET cell0 == IF wrapnum THEN NumCell ELSE PlainCell
        wrapped == add_sd_parens(sd, cell0)
    IN  IF wrapped.t = "raise" THEN wrapped
        ELSE Ok(ljust(rowname, name_just) \o
                Concat([i \in 1..Len(vals) |->
                           statrow_cell(vals[i], Sep \o wrapped.v, stat_just, digits)]) \o
                eol)

\* table_statrow(rowname, vals, name_just, stat_just, wrapnum, sd, digits,
\*               empty_left, empty_right, empty_slots)
table_statrow(rowname, vals, name_just, stat_just, wrapnum, sd, digits, empty_left, empty_right, empty_slots) ==
    LET cell0 == IF wrapnum THEN NumCell ELSE PlainCell
        wrapped == add_sd_parens(sd, cell0)
    IN  IF wrapped.t = "raise" THEN wrapped
        ELSE LET cell == Sep \o wrapped.v
                 filled == add_filler_empty_cells(vals, empty_left, empty_right,
                                                  empty_slots)
             IN  IF filled.t = "raise" THEN filled
                 ELSE Ok(ljust(rowname, name_just) \o
                         Concat([i \in 1..Len(filled.v) |->
                                    statrow_cell(filled.v[i], cell, stat_just, digits)]) \o
                         eol)

\* type(reg) is not Results or varname not in reg.beta
lacks_var(reg, varname) == reg.t # "Results" \/ varname \notin DOMAIN reg.beta

\* the beta_vals entry table_mainrow builds for one reg
mainrow_beta_val(reg, varname, digits, stars) ==
    IF lacks_var(reg, varname) THEN PyStr(EmptyStr)
    ELSE LET this_beta == format_nums(reg.beta[varname], digits)
             this_sig == IF stars THEN sig_level(reg.pt[varname]) ELSE << >>
         IN  PyStr(this_beta \o this_sig)

\* the se_vals entry with a zero where the variable is missing
mainrow_se_val_zero(reg, varname) ==
    IF lacks_var(reg, varname) THEN PyFloat(0) ELSE reg.se[varname]

\* the se_vals entry table_mainrow builds for one reg
mainrow_se_val(reg, varname) ==
    IF lacks_var(reg, varname) THEN PyStr(EmptyStr) ELSE reg.se[varname]

\* table_mainrow(rowname, varname, regs, name_just, stat_just, digits, se, stars)
table_mainrow(rowname, varname, regs, name_just, stat_just, digits, se, stars) ==
    LET beta_vals == [i \in 1..Len(regs) |->
                         mainrow_beta_val(regs[i], varname, digits, stars)]
        se_vals == [i \in 1..Len(regs) |-> mainrow_se_val(regs[i], varname)]
        beta_row == table_statrow(rowname, beta_vals, name_just, stat_just,
                                  FALSE, PyBool(FALSE), PyNone, 0, 0, << >>)
        se_row == table_statrow(EmptyStr, se_vals, name_just, stat_just,
                                FALSE, se, PyInt(digits), 0, 0, << >>)
    IN  IF beta_row.t = "raise" THEN beta_row
        ELSE IF se_row.t = "raise" THEN se_row
        ELSE Ok(beta_row.v \o se_row.v)

\* _set_options(var_labels, digits, stars): max() of no labels raises
set_options(var_labels, digits, stars) ==
    IF var_labels = << >> THEN Raise("ValueError")
    ELSE Ok([name_just |-> MaxOf([i \in 1..Len(var_labels) |-> Len(var_labels[i])]) + 2,
             stat_just |-> digits + 3 + 3 + 4,
             digits |-> digits,
             stars |-> stars])

RECURSIVE outreg_loop_firstlabel(_, _, _, _, _, _)
\* the loop of outreg labelling every block with the first label
outreg_loop_firstlabel(var_idx, var_names, var_labels, regs, opt_dict, table_str) ==
    IF var_idx = Len(var_names) THEN Ok(table_str)
    ELSE IF var_idx >= Len(var_labels) THEN Raise("IndexError")
    ELSE LET row == table_mainrow(var_labels[1], var_names[var_idx + 1],
                                  regs, opt_dict.name_just, opt_dict.stat_just,
                                  opt_dict.digits, PyStr(<<"(">>), opt_dict.stars)
         IN  IF row.t = "raise" THEN row
             ELSE outreg_loop_firstlabel(var_idx + 1, var_names, var_labels, regs,
                                         opt_dict, table_str \o row.v)

RECURSIVE outreg_loop(_, _, _, _, _, _)
\* the loop of outreg over enumerate(var_names), from var_idx (zero-based)
outreg_loop(var_idx, var_names, var_labels, regs, opt_dict, table_str) ==
    IF var_idx = Len(var_names) THEN Ok(table_str)
    ELSE IF var_idx >= Len(var_labels) THEN Raise("IndexError")
    ELSE LET row == table_mainrow(var_labels[var_idx + 1], var_names[var_idx + 1],
                                  regs, opt_dict.name_just, opt_dict.stat_just,
                                  opt_dict.digits, PyStr(<<"(">>), opt_dict.stars)
         IN  IF row.t = "raise" THEN row
             ELSE outreg_loop(var_idx + 1, var_names, var_labels, regs, opt_dict,
                              table_str \o row.v)

\* outreg(regs, var_names, var_labels, digits, stars, se, options), for a call
\* that gives regs as a list and gives var_names and var_labels (the defaults
\* of lines 38-43 are left out: the expression of line 43 is not valid
\* Python).  se is accepted and not used: it is not put in opt_dict, so
\* table_mainrow runs with its default se="(".
outreg(regs, var_names, var_labels, digits, stars, se, options) ==
    LET opts == set_options(var_labels, digits, stars)
    IN  IF opts.t = "raise" THEN opts
        ELSE LET body == outreg_loop(0, var_names, var_labels, regs, opts.v, << >>)
             IN  IF body.t = "raise" THEN body
                 ELSE IF options THEN Ok([table_str |-> body.v, opt_dict |-> opts.v])
                 ELSE Ok(body.v)

-----------------------------------------------------------------------------
(* write_notes *)

\* str.rfind(ch), zero-based, -1 when absent
rfind(p, ch) ==
    LET hits == {i \in 1..Len(p) : p[i] = ch}
    IN  IF hits = {} THEN 0 - 1 ELSE (CHOOSE i \in hits : \A j \in hits : j <= i) - 1

\* os.path.splitext(p) on a POSIX path: the extension starts at the last dot
\* of the last path component, leading dots of the component not counted
splitext(p) ==
    LET sepIndex == rfind(p, "/")
        dotIndex == rfind(p, ".")
        has_ext == /\ dotIndex > sepIndex
                   /\ \E k \in (sepIndex + 1)..(dotIndex - 1) : p[k + 1] # "."
    IN  IF has_ext
        THEN <<SubSeq(p, 1, dotIndex), SubSeq(p, dotIndex + 1, Len(p))>>
        ELSE <<p, << >> >>

NotesSuffix == <<"_", "n", "o", "t", "e", "s", ".", "t", "e", "x">>

\* the notes path keeping the extension of the table path
notes_path_keepext(table_path) ==
    splitext(table_path)[1] \o <<"_", "n", "o", "t", "e", "s">> \o splitext(table_path)[2]

\* the path write_notes opens
notes_path(table_path) == splitext(table_path)[1] \o NotesSuffix

\* open(path, 'w') followed by f.write(text): the file system after the write.
\* The file system is a map from paths to contents: every directory a path
\* names exists and can be written to.
write_file(fs, path, text) ==
    [p \in DOMAIN fs \cup {path} |-> IF p = path THEN text ELSE fs[p]]

-----------------------------------------------------------------------------
(* The inputs of the calls *)

RECURSIVE SeqsUpTo(_, _)
\* the sequences over S of length at most n
SeqsUpTo(S, n) ==
    IF n = 0 THEN {<< >>}
    ELSE LET shorter == SeqsUpTo(S, n - 1)
         IN  shorter \cup {Append(q, x) : q \in {r \in shorter : Len(r) = n - 1}, x \in S}

Labels == {<< >>, <<"N">>, <<"x", "_", "1">>}

\* cell values: the empty string, a text, an int, two floats (1.25, -0.25)
Vals == {PyStr(EmptyStr), PyStr(<<"O", "L", "S">>), PyInt(12), PyFloat(5), PyFloat(0 - 1)}

Widths == {[name_just |-> 0, stat_just |-> 1], [name_just |-> 6, stat_just |-> 9]}

NoneOrDigits == {PyNone} \cup {PyInt(d) : d \in 0..MaxDigits}

\* style flags: the four the code accepts, and some it refuses
SdFlags == {PyBool(TRUE), PyBool(FALSE), PyStr(<<"(">>), PyStr(<<"[">>),
            PyStr(<<"?">>), PyStr(<<")">>), PyStr(EmptyStr), PyInt(0), PyInt(1), PyNone}

SlotLists == SeqsUpTo(0..MaxPos, MaxSlots)

\* (empty_left, empty_right, empty_slots): counts alone, slots alone, and
\* the conflicting calls that give both
EmptyArgs ==
    {<<l, r, << >> >> : l \in 0..MaxEmpty, r \in 0..MaxEmpty} \cup
    {<<0, 0, sl>> : sl \in SlotLists} \cup
    {<<l, r, sl>> : l \in 0..MaxEmpty, r \in 0..MaxEmpty,
                    sl \in {x \in SlotLists : Len(x) = 1}}

Vars == {"x1", "x2"}

\* Results objects: beta, pt (p-values, in thousandths) and se share an index
RegA == [t |-> "Results",
         beta |-> [v \in {"x1"} |-> PyFloat(8)],
         pt |-> [v \in {"x1"} |-> 30],
         se |-> [v \in {"x1"} |-> PyFloat(2)]]
RegB == [t |-> "Results",
         beta |-> [v \in {"x1", "x2"} |-> IF v = "x1" THEN PyFloat(0 - 1) ELSE PyFloat(7)],
         pt |-> [v \in {"x1", "x2"} |-> IF v = "x1" THEN 100 ELSE 200],
         se |-> [v \in {"x1", "x2"} |-> IF v = "x1" THEN PyFloat(1) ELSE PyFloat(50)]]
RegC == [t |-> "Results",
         beta |-> [v \in {"x2"} |-> PyFloat(0 - 13)],
         pt |-> [v \in {"x2"} |-> 5],
         se |-> [v \in {"x2"} |-> PyFloat(3)]]

\* entries of a regs list: Results objects and things that are not
Entries == {RegA, RegB, RegC, PyStr(EmptyStr), PyNone}

ValSeqs == SeqsUpTo(Vals, MaxVals)

\* the style flags handed to the row builders
RowFlags == SdFlags \ {PyInt(0), PyInt(1), PyStr(<<")">>), PyStr(EmptyStr)}

SigCall(p) == [op |-> "_sig_level", p |-> p]

FormatCall(x, d) == [op |-> "_format_nums", x |-> x, digits |-> d]

ParensCall(sd, c) == [op |-> "_add_sd_parens", sd |-> sd, cell |-> c]

FillerCall(vs, e) ==
    [op |-> "_add_filler_empty_cells", vals |-> vs,
     empty_left |-> e[1], empty_right |-> e[2], empty_slots |-> e[3]]

StatrowCall(rn, vs, w, wn, sd, d, e) ==
    [op |-> "table_statrow", rowname |-> rn, vals |-> vs,
     name_just |-> w.name_just, stat_just |-> w.stat_just,
     wrapnum |-> wn, sd |-> sd, digits |-> d,
     empty_left |-> e[1], empty_right |-> e[2], empty_slots |-> e[3]]

MainrowCall(rn, vn, rs, w, d, se, st) ==
    [op |-> "table_mainrow", rowname |-> rn, varname |-> vn, regs |-> rs,
     name_just |-> w.name_just, stat_just |-> w.stat_just,
     digits |-> d, se |-> se, stars |-> st]

OutregCall(rs, vns, vls, d, st, se, o) ==
    [op |-> "outreg", regs |-> rs, var_names |-> vns, var_labels |-> vls,
     digits |-> d, stars |-> st, se |-> se, options |-> o]

NotesCall(n, tp) == [op |-> "write_notes", notes |-> n, table_path |-> tp]

PathSegs == {<<"a">>, <<".">>, <<"/">>, <<".", "t", "e", "x">>}

\* table paths: one to MaxSegs segments
Paths == {Concat(ss) : ss \in SeqsUpTo(PathSegs, MaxSegs) \ {<< >>}}

Notes == {<< >>, <<"h", "i">>}

OldText == <<"o", "l", "d">>

\* the file systems a call of write_notes may find: any of two files present
OldFiles == {[p \in ps |-> OldText] :
                ps \in SUBSET {<<"a">> \o NotesSuffix, <<"a", ".", "t", "e", "x">>}}

Pending == [t |-> "pending"]

-----------------------------------------------------------------------------
(* The state machine: a call is drawn, then runs to its return or raise *)

Start(fs) ==
    /\ pc = "call"
    /\ ret = Pending
    /\ files = fs

InitHelpers ==
    /\ Start(<< >>)
    /\ \/ \E p \in 0..MaxP : call = SigCall(p)
       \/ \E x \in Vals, d \in 0..MaxDigits : call = FormatCall(x, d)
       \/ \E sd \in SdFlags, c \in {PlainCell, NumCell} : call = ParensCall(sd, c)
       \/ \E vs \in ValSeqs, e \in EmptyArgs : call = FillerCall(vs, e)

\* table_statrow: every formatting option with few empty-cell arguments, and
\* every empty-cell argument with few formatting options
InitStatrow ==
    /\ Start(<< >>)
    /\ \/ \E rn \in {<< >>, <<"N">>}, vs \in ValSeqs, w \in Widths, wn \in BOOLEAN,
             sd \in RowFlags, d \in NoneOrDigits,
             e \in {<<0, 0, << >> >>, <<0, 0, <<1>> >>} :
               call = StatrowCall(rn, vs, w, wn, sd, d, e)
       \/ \E vs \in ValSeqs, sd \in {PyBool(FALSE), PyStr(<<"(">>)},
             d \in {PyNone, PyInt(1)}, e \in EmptyArgs :
               call = StatrowCall(<<"N">>, vs, [name_just |-> 6, stat_just |-> 9],
                                  FALSE, sd, d, e)

InitMainrow ==
    /\ Start(<< >>)
    /\ \E rn \in {<< >>, <<"x", "_", "1">>}, vn \in Vars,
          rs \in SeqsUpTo(Entries, MaxRegs), w \in Widths, d \in 0..MaxDigits,
          se \in RowFlags, st \in BOOLEAN :
            call = MainrowCall(rn, vn, rs, w, d, se, st)

InitOutreg ==
    /\ Start(<< >>)
    /\ \E rs \in SeqsUpTo({RegA, RegB, PyNone}, MaxRegs), vns \in SeqsUpTo(Vars, MaxVars),
          vls \in SeqsUpTo({<<"N">>, <<"x", "_", "1">>}, MaxVars),
          d \in {0, MaxDigits}, st \in BOOLEAN,
          se \in {PyStr(<<"(">>), PyStr(<<"[">>)}, o \in BOOLEAN :
            call = OutregCall(rs, vns, vls, d, st, se, o)

InitNotes ==
    \E fs \in OldFiles, n \in Notes, tp \in Paths :
        Start(fs) /\ call = NotesCall(n, tp)

Init == InitHelpers \/ InitStatrow \/ InitMainrow \/ InitOutreg \/ InitNotes

Return(r) ==
    /\ ret' = r
    /\ pc' = "done"
    /\ UNCHANGED <<call, files>>

Do_sig_level ==
    /\ pc = "call" /\ call.op = "_sig_level"
    /\ Return(Ok(sig_level(call.p)))

Do_format_nums ==
    /\ pc = "call" /\ call.op = "_format_nums"
    /\ Return(Ok(format_nums(call.x, call.digits)))

Do_add_sd_parens ==
    /\ pc = "call" /\ call.op = "_add_sd_parens"
    /\ Return(add_sd_parens(call.sd, call.cell))

Do_add_filler_empty_cells ==
    /\ pc = "call" /\ call.op = "_add_filler_empty_cells"
    /\ Return(add_filler_empty_cells(call.vals, call.empty_left, call.empty_right,
                                     call.empty_slots))

Do_table_statrow ==
    /\ pc = "call" /\ call.op = "table_statrow"
    /\ Return(table_statrow(call.rowname, call.vals, call.name_just, call.stat_just,
                            call.wrapnum, call.sd, call.digits,
                            call.empty_left, call.empty_right, call.empty_slots))

Do_table_mainrow ==
    /\ pc = "call" /\ call.op = "table_mainrow"
    /\ Return(table_mainrow(call.rowname, call.varname, call.regs, call.name_just,
                            call.stat_just, call.digits, call.se, call.stars))

Do_outreg ==
    /\ pc = "call" /\ call.op = "outreg"
    /\ Return(outreg(call.regs, call.var_names, call.var_labels, call.digits,
                     call.stars, call.se, call.options))

Do_write_notes ==
    /\ pc = "call" /\ call.op = "write_notes"
    /\ files' = write_file(files, notes_path(call.table_path), call.notes)
    /\ ret' = Ok(PyNone)
    /\ pc' = "done"
    /\ UNCHANGED call

Next ==
    \/ Do_sig_level
    \/ Do_format_nums
    \/ Do_add_sd_parens
    \/ Do_add_filler_empty_cells
    \/ Do_table_statrow
    \/ Do_table_mainrow
    \/ Do_outreg
    \/ Do_write_notes

Spec == Init /\ [][Next]_vars

(* The same machine restricted to the calls of one group of functions *)

NextHelpers ==
    \/ Do_sig_level
    \/ Do_format_nums
    \/ Do_add_sd_parens
    \/ Do_add_filler_empty_cells

SpecHelpers == InitHelpers /\ [][NextHelpers]_vars

SpecStatrow == InitStatrow /\ [][Do_table_statrow]_vars

SpecMainrow == InitMainrow /\ [][Do_table_mainrow]_vars

SpecOutreg == InitOutreg /\ [][Do_outreg]_vars

SpecNotes == InitNotes /\ [][Do_write_notes]_vars

-----------------------------------------------------------------------------
(* Reading a rendered table back: rows, row labels and value cells.  No    *)
(* modelled label or value holds "&" or a line break, so a row ends at its *)
(* line break and a value cell starts at each column separator.            *)

Done(op) == pc = "done" /\ call.op = op

RECURSIVE SortedSeq(_)
\* the elements of a finite set of integers in increasing order
SortedSeq(S) ==
    IF S = {} THEN << >>
    ELSE LET m == CHOOSE x \in S : \A y \in S : x <= y
         IN  <<m>> \o SortedSeq(S \ {m})

RECURSIVE SplitLines(_)
\* the lines of a text, each with its line break
SplitLines(s) ==
    IF s = << >> THEN << >>
    ELSE LET brk == {i \in 1..Len(s) : s[i] = "\n"}
             k == IF brk = {} THEN Len(s) ELSE CHOOSE i \in brk : \A j \in brk : i <= j
         IN  <<SubSeq(s, 1, k)>> \o SplitLines(SubSeq(s, k + 1, Len(s)))

\* a row ends with the row terminator
IsRow(row) == Len(row) >= Len(eol) /\ SubSeq(row, Len(row) - Len(eol) + 1, Len(row)) = eol

RowBody(row) == SubSeq(row, 1, Len(row) - Len(eol))

SepIdx(s) == SortedSeq({i \in 1..(Len(s) - 1) : s[i] = "&" /\ s[i + 1] = " "})

\* the value cells of a row, each from its column separator to the next
CellsOf(row) ==
    LET body == RowBody(row)
        at == SepIdx(body)
    IN  [k \in 1..Len(at) |->
            SubSeq(body, at[k], IF k < Len(at) THEN at[k + 1] - 1 ELSE Len(body))]

\* the row label cell: what precedes the first column separator
LabelOf(row) ==
    LET body == RowBody(row)
        at == SepIdx(body)
    IN  SubSeq(body, 1, IF at = << >> THEN Len(body) ELSE at[1] - 1)

AllSpaces(s) == \A i \in 1..Len(s) : s[i] = " "

\* a blank cell: the column separator padded with spaces to stat_just
IsBlankCell(c, stat_just) ==
    /\ Len(c) = Max(2, stat_just)
    /\ SubSeq(c, 1, 2) = <<"&", " ">>
    /\ AllSpaces(SubSeq(c, 3, Len(c)))

\* what a cell shows: the cell without its separator and its padding
ContentOf(c) ==
    LET inked == {i \in 3..Len(c) : c[i] # " "}
    IN  IF inked = {} THEN << >>
        ELSE SubSeq(c, 3, CHOOSE i \in inked : \A j \in inked : j <= i)

WrappedIn(s, left, right) == Len(s) >= 2 /\ s[1] = left /\ s[Len(s)] = right

SeqToSet(seq) == {seq[i] : i \in 1..Len(seq)}

NoDuplicates(seq) == Cardinality(SeqToSet(seq)) = Len(seq)

-----------------------------------------------------------------------------
(* C1 *)

\* C1: _sig_level(p) is '' when p > 0.1, '*' when 0.05 < p <= 0.1, '**' when
\* 0.01 < p <= 0.05 and '***' when p <= 0.01 (p in thousandths)
C1_SigBands ==
    Done("_sig_level") =>
        /\ ret.t = "ok"
        /\ call.p > 100 => ret.v = << >>
        /\ (50 < call.p /\ call.p <= 100) => ret.v = <<"*">>
        /\ (10 < call.p /\ call.p <= 50) => ret.v = <<"*", "*">>
        /\ call.p <= 10 => ret.v = <<"*", "*", "*">>

C1_Witness == Done("_sig_level") /\ call.p = 100 /\ ret = Ok(<<"*">>)

-----------------------------------------------------------------------------
(* C9 *)

\* C9: _add_sd_parens returns the template unchanged for False, wrapped in
\* ( ) for True or "(", wrapped in [ ] for "[", and raises its invalid-style
\* error (ValueError) for every other flag
C9_Parens ==
    Done("_add_sd_parens") =>
        LET sd == call.sd
            cell == call.cell
        IN  /\ sd = PyBool(FALSE) => ret = Ok(cell)
            /\ sd \in {PyBool(TRUE), PyStr(<<"(">>)} => ret = Ok(<<"(">> \o cell \o <<")">>)
            /\ sd = PyStr(<<"[">>) => ret = Ok(<<"[">> \o cell \o <<"]">>)
            /\ sd \notin {PyBool(FALSE), PyBool(TRUE), PyStr(<<"(">>), PyStr(<<"[">>)}
                  => ret = Raise("ValueError")

C9_Witness ==
    /\ Done("_add_sd_parens")
    /\ call.sd = PyStr(<<"?">>) /\ call.cell = PlainCell
    /\ ret = Raise("ValueError")

-----------------------------------------------------------------------------
(* C2 *)

\* out is vals with a blank at every position of S (zero-based) and the
\* elements of vals, in order, at the other positions
ExpandedAs(out, vals, S) ==
    LET kept == SortedSeq({i \in 1..Len(out) : (i - 1) \notin S})
    IN  /\ Len(out) = Len(vals) + Cardinality(S)
        /\ \A i \in S : i + 1 <= Len(out) /\ out[i + 1] = PyStr(EmptyStr)
        /\ [k \in 1..Len(kept) |-> out[kept[k]]] = vals

SlotsOnly ==
    /\ Done("_add_filler_empty_cells")
    /\ call.empty_left = 0 /\ call.empty_right = 0
    /\ NoDuplicates(call.empty_slots)

\* C2 as claimed: for every vals and every set S of positions given as
\* empty_slots, the expander returns vals expanded with blanks at S
C2_Original ==
    SlotsOnly => /\ ret.t = "ok"
                 /\ ExpandedAs(ret.v, call.vals, SeqToSet(call.empty_slots))

\* C2 amended: so it is when every position of S is below len(vals) + |S|;
\* for any other S the call raises IndexError
C2_Expand ==
    SlotsOnly =>
        LET S == SeqToSet(call.empty_slots)
        IN  IF \A i \in S : i < Len(call.vals) + Cardinality(S)
            THEN ret.t = "ok" /\ ExpandedAs(ret.v, call.vals, S)
            ELSE ret = Raise("IndexError")

C2_Witness ==
    /\ Done("_add_filler_empty_cells")
    /\ call.vals = <<PyInt(12), PyFloat(5)>>
    /\ call.empty_left = 0 /\ call.empty_right = 0
    /\ call.empty_slots = <<1, 3>>
    /\ ret = Ok(<<PyInt(12), PyStr(EmptyStr), PyFloat(5), PyStr(EmptyStr)>>)

-----------------------------------------------------------------------------
(* C8, C7: table_statrow *)

Returned(op) == Done(op) /\ ret.t = "ok"

\* the number of column separators "& " in a text
SepCount(s) == Cardinality({i \in 1..(Len(s) - 1) : s[i] = "&" /\ s[i + 1] = " "})

\* C8: a row table_statrow returns has len(vals) + len(empty_slots) value
\* cells when empty_slots is given, len(vals) + empty_left + empty_right when
\* the counts are given
C8_CellCount ==
    Returned("table_statrow") =>
        /\ Len(SplitLines(ret.v)) = 1
        /\ IsRow(ret.v)
        /\ SepCount(ret.v) =
              Len(call.vals) + (IF call.empty_slots # << >> THEN Len(call.empty_slots)
                                ELSE call.empty_left + call.empty_right)

C8_Witness ==
    /\ Returned("table_statrow")
    /\ Len(call.vals) = 2
    /\ call.empty_left = 1 /\ call.empty_right = 1 /\ call.empty_slots = << >>
    /\ SepCount(ret.v) = 4

\* the positions (one-based) of the expanded row that hold the empty string:
\* those the call asks to leave empty and those of the empty strings of vals
BlankPositions ==
    LET n == Len(call.vals)
        total == Len(CellsOf(ret.v))
        asked == IF call.empty_slots # << >> THEN {i + 1 : i \in SeqToSet(call.empty_slots)}
                 ELSE {i \in 1..total : i <= call.empty_left \/ i > call.empty_left + n}
        kept == SortedSeq((1..total) \ asked)
    IN  asked \cup {kept[k] : k \in {j \in 1..Len(kept) : j <= n /\ IsEmptyStr(call.vals[j])}}

\* C7: whatever wrapnum, sd and digits are, table_statrow renders every empty
\* string, given in vals or inserted by the expansion, as a blank cell: the
\* column separator padded to stat_just and nothing else
C7_BlankCells ==
    Returned("table_statrow") =>
        \A i \in BlankPositions :
            /\ i <= Len(CellsOf(ret.v))
            /\ IsBlankCell(CellsOf(ret.v)[i], call.stat_just)

C7_Witness ==
    /\ Returned("table_statrow")
    /\ call.wrapnum /\ call.sd = PyStr(<<"(">>) /\ call.digits = PyInt(2)
    /\ call.vals = <<PyStr(EmptyStr), PyFloat(5)>>
    /\ call.empty_slots = <<1>>
    /\ BlankPositions = {1, 2}
    /\ ContentOf(CellsOf(ret.v)[3]) =
          <<"(", "\\", "n", "u", "m", "{", "1", ".", "2", "5", "}", ")">>

-----------------------------------------------------------------------------
(* C3, C6: table_mainrow *)

\* entry i of the call's regs is not a Results object or has no varname
Lacks(i, varname) ==
    call.regs[i].t # "Results" \/ varname \notin DOMAIN call.regs[i].beta

\* C3: table_mainrow returns two rows of n value cells each, and for every
\* entry that is not a Results or lacks varname the cell of the estimate row
\* and the cell of the SE row are blank cells
C3_BlankPair ==
    Returned("table_mainrow") =>
        LET rows == SplitLines(ret.v)
        IN  /\ Len(rows) = 2
            /\ \A r \in 1..2 :
                  /\ IsRow(rows[r])
                  /\ Len(CellsOf(rows[r])) = Len(call.regs)
                  /\ \A i \in 1..Len(call.regs) :
                        Lacks(i, call.varname) =>
                            IsBlankCell(CellsOf(rows[r])[i], call.stat_just)

C3_Witness ==
    /\ Returned("table_mainrow")
    /\ call.regs = <<RegC, RegA>> /\ call.varname = "x1"
    /\ call.se = PyStr(<<"(">>) /\ call.digits = 2 /\ call.stars
    /\ ContentOf(CellsOf(SplitLines(ret.v)[1])[2]) = <<"2", ".", "0", "0", "*", "*">>
    /\ ContentOf(CellsOf(SplitLines(ret.v)[2])[2]) = <<"(", "0", ".", "5", "0", ")">>

\* the SE row of a returned block has the empty row label
SeLabelEmpty(row, name_just) ==
    Len(LabelOf(row)) = name_just /\ AllSpaces(LabelOf(row))

\* C6 as claimed: whatever se is, the SE row of the block table_mainrow
\* returns has the empty label and every non-blank SE cell is wrapped in a
\* marker pair
C6_Original ==
    Returned("table_mainrow") =>
        LET se_row == SplitLines(ret.v)[2]
        IN  /\ SeLabelEmpty(se_row, call.name_just)
            /\ \A i \in 1..Len(call.regs) :
                  ~Lacks(i, call.varname) =>
                      \/ WrappedIn(ContentOf(CellsOf(se_row)[i]), "(", ")")
                      \/ WrappedIn(ContentOf(CellsOf(se_row)[i]), "[", "]")

\* C6 amended: the SE row has the empty label; every non-blank SE cell is
\* wrapped in ( ) when se is True or "(", in [ ] when se is "[", and holds
\* the bare formatted number when se is False; no other se returns a block
C6_SeRow ==
    Returned("table_mainrow") =>
        LET se_row == SplitLines(ret.v)[2]
        IN  /\ SeLabelEmpty(se_row, call.name_just)
            /\ call.se \in {PyBool(TRUE), PyBool(FALSE), PyStr(<<"(">>), PyStr(<<"[">>)}
            /\ \A i \in 1..Len(call.regs) :
                  ~Lacks(i, call.varname) =>
                      LET shown == ContentOf(CellsOf(se_row)[i])
                          number == PyFormatFixed(call.regs[i].se[call.varname], call.digits)
                      IN  /\ call.se \in {PyBool(TRUE), PyStr(<<"(">>)}
                                => shown = <<"(">> \o number \o <<")">>
                          /\ call.se = PyStr(<<"[">>) => shown = <<"[">> \o number \o <<"]">>
                          /\ call.se = PyBool(FALSE) => shown = number

C6_Witness ==
    /\ Returned("table_mainrow")
    /\ call.regs = <<RegB>> /\ call.varname = "x2"
    /\ call.se = PyStr(<<"[">>) /\ call.digits = 1
    /\ LabelOf(SplitLines(ret.v)[2]) = Spaces(call.name_just)
    /\ ContentOf(CellsOf(SplitLines(ret.v)[2])[1]) = <<"[", "1", "2", ".", "5", "]">>

-----------------------------------------------------------------------------
(* C4, C5: outreg *)

\* the table body of what outreg returned
BodyOf(r) == IF call.options THEN r.v.table_str ELSE r.v

\* one table_mainrow block per variable, in the order of var_names: block i
\* from label i and variable i, every block with the widths of the claim
\* (name_just from the longest label, stat_just from digits) and the style se
BlocksWith(se) ==
    LET lens == {Len(call.var_labels[i]) : i \in 1..Len(call.var_labels)}
        longest == CHOOSE m \in lens : \A k \in lens : k <= m
    IN  Concat([i \in 1..Len(call.var_names) |->
                   table_mainrow(call.var_labels[i], call.var_names[i], call.regs,
                                 longest + 2, call.digits + 10, call.digits, se,
                                 call.stars).v])

SameLength == Done("outreg") /\ Len(call.var_names) = Len(call.var_labels)

\* C4 as claimed: given var_names and var_labels of the same length, outreg
\* returns the concatenation, in the order of var_names, of one
\* table_mainrow block per variable
C4_Original ==
    SameLength =>
        /\ ret.t = "ok"
        /\ \E se \in {PyStr(<<"(">>), PyStr(<<"[">>)} : BodyOf(ret) = BlocksWith(se)

\* C4 amended: so it is for non-empty lists; given empty lists outreg raises
\* ValueError (the longest label of no labels)
C4_Blocks ==
    SameLength =>
        IF call.var_names = << >> THEN ret = Raise("ValueError")
        ELSE /\ ret.t = "ok"
             /\ \E se \in {PyStr(<<"(">>), PyStr(<<"[">>)} : BodyOf(ret) = BlocksWith(se)

C4_Witness ==
    /\ Returned("outreg")
    /\ call.var_names = <<"x2", "x1">>
    /\ call.var_labels = <<<<"x", "_", "1">>, <<"N">>>>
    /\ call.regs = <<RegA, RegB>> /\ ~call.options /\ call.digits = 2
    /\ Len(SplitLines(ret.v)) = 4
    /\ LabelOf(SplitLines(ret.v)[1]) = <<"x", "_", "1", " ", " ">>
    /\ LabelOf(SplitLines(ret.v)[3]) = <<"N", " ", " ", " ", " ">>
    /\ Len(CellsOf(SplitLines(ret.v)[4])[1]) = 12

\* C5: the se given to outreg is the style of the SE rows of the body: every
\* non-blank SE cell is wrapped in ( ) when se is "(" and in [ ] when se is "["
C5_SeStyle ==
    Returned("outreg") =>
        LET rows == SplitLines(BodyOf(ret))
            right == IF call.se = PyStr(<<"(">>) THEN ")" ELSE "]"
        IN  \A r \in {k \in 1..Len(rows) : k % 2 = 0} :
                \A i \in 1..Len(CellsOf(rows[r])) :
                    \/ IsBlankCell(CellsOf(rows[r])[i], call.digits + 10)
                    \/ WrappedIn(ContentOf(CellsOf(rows[r])[i]), call.se.s[1], right)

-----------------------------------------------------------------------------
(* C10: write_notes *)

\* the extension of path p starts at index k: a dot with no dot and no
\* separator after it, and before it, in the same path component, a
\* character that is not a dot
ExtAt(p, k) ==
    /\ p[k] = "."
    /\ \A j \in (k + 1)..Len(p) : p[j] # "." /\ p[j] # "/"
    /\ \E j \in 1..(k - 1) : p[j] # "." /\ \A m \in j..(k - 1) : p[m] # "/"

RootOf(p) ==
    IF \E k \in 1..Len(p) : ExtAt(p, k)
    THEN SubSeq(p, 1, (CHOOSE k \in 1..Len(p) : ExtAt(p, k)) - 1)
    ELSE p

ExtOf(p) == SubSeq(p, Len(RootOf(p)) + 1, Len(p))

\* this step writes text to the file at target, replacing what was there,
\* and leaves every other path as it was
WritesOnly(target, text) ==
    /\ DOMAIN files' = DOMAIN files \cup {target}
    /\ files'[target] = text
    /\ \A p \in DOMAIN files \ {target} : files'[p] = files[p]

Writing == pc = "call" /\ call.op = "write_notes"

\* C10 as claimed: write_notes writes the notes to the table path with its
\* extension replaced by '_notes' and the original extension, and nowhere else
C10_Original ==
    [][Writing =>
          WritesOnly(RootOf(call.table_path) \o <<"_", "n", "o", "t", "e", "s">> \o
                     ExtOf(call.table_path), call.notes)]_vars

\* C10 amended: write_notes writes the notes to the table path with its
\* extension replaced by '_notes.tex', whatever the original extension was,
\* and nowhere else
C10_NotesTex ==
    [][Writing =>
          WritesOnly(RootOf(call.table_path) \o
                     <<"_", "n", "o", "t", "e", "s", ".", "t", "e", "x">>, call.notes)]_vars

C10_Witness ==
    /\ Done("write_notes")
    /\ call.table_path = <<"a", ".", "a">> /\ call.notes = <<"h", "i">>
    /\ DOMAIN files = {<<"a", "_", "n", "o", "t", "e", "s", ".", "t", "e", "x">>,
                       <<"a", ".", "t", "e", "x">>}
    /\ files[<<"a", "_", "n", "o", "t", "e", "s", ".", "t", "e", "x">>] = <<"h", "i">>
    /\ files[<<"a", ".", "t", "e", "x">>] = OldText

=============================================================================
